---- MODULE Spec2Model ----
(***************************************************************************)
(* Model of the tarot-oracle-bot draw engine (src/src/tarot_core.py) and   *)
(* of the orchestration entry point perform_reading (src/src/logic.py).    *)
(*                                                                         *)
(* Python values are represented as follows.                               *)
(*   Optional[x]  : <<>> for None, <<x>> for a present value.              *)
(*   int          : [neg, mag] - sign and big-endian base-256 magnitude    *)
(*                  without leading zero bytes (arbitrary precision).      *)
(*   float in the probability argument : thousandths, as an integer.       *)
(*   list         : a sequence; Python index i is TLA+ index i + 1.        *)
(*   object       : where identity matters (a list that is copied or       *)
(*                  changed in place, a generator), a reference into       *)
(*                  `lists` or `gens`.                                     *)
(***************************************************************************)
EXTENDS Integers, Sequences, FiniteSets, TLC

VARIABLES
    CARD_REGISTRY,    \* tarot_core.CARD_REGISTRY: list of CardDef
    CARD_ID_INDEX,    \* tarot_core.CARD_ID_INDEX: card id -> list index (0-based)
    SPREAD_REGISTRY,  \* tarot_core.SPREAD_REGISTRY: spread id -> SpreadDef
    pc,               \* "idle": no call outstanding; "returned": a call has ended
    call,             \* the arguments of the call that ended last
    entropy,          \* Optional: the OS entropy random.Random(None) consumed
    out,              \* outcome of the call: a returned value or a raised error
    llm_calls,        \* number of times the LLM collaborator was invoked by the call
    memo,             \* Optional: an earlier call and its outcome, kept by the observer
    frames,           \* caller -> the local variables of its running invocation
    lists,            \* list objects: reference -> the list's items
    gens              \* random.Random objects: reference -> the generator's state

vars == <<CARD_REGISTRY, CARD_ID_INDEX, SPREAD_REGISTRY, pc, call, entropy, out,
          llm_calls, memo, frames, lists, gens>>

None == <<>>
Some(x) == <<x>>

--------------------------------------------------------------------------
(* Bounds of the model *)

\* Counts range over -CountSlack .. DeckSize + CountSlack.
CountSlack == 2
\* OS entropy values an unseeded generator may start from: 0 .. MaxEntropy.
MaxEntropy == 1
\* Lists of up to MaxItems items are given to the shuffle on its own.
MaxItems == 4

--------------------------------------------------------------------------
(* Error classes: tarot_core.py lines 29-38 *)

\* class -> its direct base class
ErrorBase(cls) ==
    CASE cls = "TarotCoreError"        -> "Exception"
      [] cls = "InvalidSpreadError"    -> "TarotCoreError"
      [] cls = "InvalidParameterError" -> "TarotCoreError"
      [] cls = "RuntimeError"          -> "Exception"
      [] cls = "ValueError"            -> "Exception"
      [] OTHER                         -> "BaseException"

RECURSIVE IsSubclass(_, _)
\* Python's issubclass: what an `except base` clause catches.
IsSubclass(cls, base) ==
    IF cls = base THEN TRUE
    ELSE IF cls = "BaseException" THEN FALSE
    ELSE IsSubclass(ErrorBase(cls), base)

Raise(cls, msg) == [status |-> "error", error |-> [cls |-> cls, msg |-> msg]]
Return(value) == [status |-> "ok", result |-> value]

--------------------------------------------------------------------------
(* Spread registry: tarot_core.py lines 75-108 *)

SpreadRegistryInit ==
    [id \in {"single", "three_card", "five_card", "celtic_cross"} |->
        CASE id = "single" ->
               [id |-> "single", name |-> "Single Card",
                positions |-> <<"focus">>]
          [] id = "three_card" ->
               [id |-> "three_card", name |-> "Three Card (Past / Present / Future)",
                positions |-> <<"past", "present", "future">>]
          [] id = "five_card" ->
               [id |-> "five_card",
                name |-> "Five Card (Issue / Action / Obstacle / Resource / Outcome)",
                positions |-> <<"issue", "action", "obstacle", "resource", "outcome">>]
          [] id = "celtic_cross" ->
               [id |-> "celtic_cross", name |-> "Celtic Cross (10)",
                positions |-> <<"situation", "challenge", "subconscious", "past",
                                "conscious", "near_future", "self", "environment",
                                "hopes_fears", "outcome">>]]

\* get_spread: the definition, or InvalidSpreadError when not registered.
get_spread(spread_id) ==
    IF spread_id \notin DOMAIN SPREAD_REGISTRY
    THEN Raise("InvalidSpreadError", "not_registered")
    ELSE Return(SPREAD_REGISTRY[spread_id])

--------------------------------------------------------------------------
(* RWS 78-card registry: tarot_core.py lines 127-190 *)

DigitStr == <<"0", "1", "2", "3", "4", "5", "6", "7", "8", "9">>

\* str(i) for 0 <= i <= 99
Str(i) == IF i < 10 THEN DigitStr[i + 1]
          ELSE DigitStr[(i \div 10) + 1] \o DigitStr[(i % 10) + 1]

\* f"{i:02d}" for 0 <= i <= 99
Fmt02d(i) == DigitStr[(i \div 10) + 1] \o DigitStr[(i % 10) + 1]

\* The major arcana names with _slug(name): lower case, " " and "-" to "_",
\* apostrophes dropped.
Majors ==
    << [name |-> "The Fool",           slug |-> "the_fool"],
       [name |-> "The Magician",       slug |-> "the_magician"],
       [name |-> "The High Priestess", slug |-> "the_high_priestess"],
       [name |-> "The Empress",        slug |-> "the_empress"],
       [name |-> "The Emperor",        slug |-> "the_emperor"],
       [name |-> "The Hierophant",     slug |-> "the_hierophant"],
       [name |-> "The Lovers",         slug |-> "the_lovers"],
       [name |-> "The Chariot",        slug |-> "the_chariot"],
       [name |-> "Strength",           slug |-> "strength"],
       [name |-> "The Hermit",         slug |-> "the_hermit"],
       [name |-> "Wheel of Fortune",   slug |-> "wheel_of_fortune"],
       [name |-> "Justice",            slug |-> "justice"],
       [name |-> "The Hanged Man",     slug |-> "the_hanged_man"],
       [name |-> "Death",              slug |-> "death"],
       [name |-> "Temperance",         slug |-> "temperance"],
       [name |-> "The Devil",          slug |-> "the_devil"],
       [name |-> "The Tower",          slug |-> "the_tower"],
       [name |-> "The Star",           slug |-> "the_star"],
       [name |-> "The Moon",           slug |-> "the_moon"],
       [name |-> "The Sun",            slug |-> "the_sun"],
       [name |-> "Judgement",          slug |-> "judgement"],
       [name |-> "The World",          slug |-> "the_world"] >>

Suits == << <<"wands", "Wands">>, <<"cups", "Cups">>,
            <<"swords", "Swords">>, <<"pentacles", "Pentacles">> >>

Ranks == << <<"ace", "Ace">>, <<"2", "Two">>, <<"3", "Three">>, <<"4", "Four">>,
            <<"5", "Five">>, <<"6", "Six">>, <<"7", "Seven">>, <<"8", "Eight">>,
            <<"9", "Nine">>, <<"10", "Ten">>, <<"page", "Page">>,
            <<"knight", "Knight">>, <<"queen", "Queen">>, <<"king", "King">> >>

\* A registry whose minor identifiers leave out the suit: f"minor_{rank_key}".
BuildRwsRegistryCollidingIds ==
    [k \in 1 .. (Len(Majors) + Len(Suits) * Len(Ranks)) |->
        IF k <= Len(Majors)
        THEN [id   |-> "major_" \o Fmt02d(k - 1) \o "_" \o Majors[k].slug,
              name |-> Majors[k].name,
              suit |-> "major",
              rank |-> Str(k - 1)]
        ELSE LET m == k - Len(Majors) - 1
                 s == Suits[(m \div Len(Ranks)) + 1]
                 r == Ranks[(m % Len(Ranks)) + 1]
             IN  [id   |-> "minor_" \o r[1],
                  name |-> r[2] \o " of " \o s[2],
                  suit |-> s[1],
                  rank |-> r[1]]]

\* 22 majors in order, then suit by suit, rank by rank.
_build_rws_registry ==
    [k \in 1 .. (Len(Majors) + Len(Suits) * Len(Ranks)) |->
        IF k <= Len(Majors)
        THEN [id   |-> "major_" \o Fmt02d(k - 1) \o "_" \o Majors[k].slug,
              name |-> Majors[k].name,
              suit |-> "major",
              rank |-> Str(k - 1)]
        ELSE LET m == k - Len(Majors) - 1
                 s == Suits[(m \div Len(Ranks)) + 1]
                 r == Ranks[(m % Len(Ranks)) + 1]
             IN  [id   |-> "minor_" \o s[1] \o "_" \o r[1],
                  name |-> r[2] \o " of " \o s[2],
                  suit |-> s[1],
                  rank |-> r[1]]]

\* The size the registry is asserted to have (line 185) and that the
\* error message of line 313 names.
DeckSize == 78

\* {c.id: idx for idx, c in enumerate(registry)}: a later duplicate wins.
BuildCardIdIndex(registry) ==
    [cid \in {registry[k].id : k \in 1 .. Len(registry)} |->
        (CHOOSE k \in 1 .. Len(registry) :
            /\ registry[k].id = cid
            /\ \A k2 \in 1 .. Len(registry) : registry[k2].id = cid => k2 <= k) - 1]

RECURSIVE CardIds(_)
\* [c.id for c in registry]
CardIds(registry) ==
    IF registry = <<>> THEN <<>>
    ELSE <<Head(registry).id>> \o CardIds(Tail(registry))

\* build_deck: the ordered card ids, or InvalidParameterError.
build_deck(deck_type) ==
    IF deck_type # "rws"
    THEN Raise("InvalidParameterError", "unsupported_deck_type")
    ELSE Return(CardIds(CARD_REGISTRY))

--------------------------------------------------------------------------
(* Python values of the arguments *)

PyInt(neg, mag) == [neg |-> neg, mag |-> mag]

\* Seed arguments: None, an int, a str, or a value of another type (a float).
SeedNone       == [kind |-> "none",  neg |-> FALSE, mag |-> <<>>, text |-> ""]
SeedInt(n, m)  == [kind |-> "int",   neg |-> n,     mag |-> m,    text |-> ""]
SeedStr(t)     == [kind |-> "str",   neg |-> FALSE, mag |-> <<>>, text |-> t]
SeedFloat(t)   == [kind |-> "float", neg |-> FALSE, mag |-> <<>>, text |-> t]

\* num_cards arguments: an int, or a float with an integral value.
CountInt(n)   == [kind |-> "int",   val |-> n]
CountFloat(n) == [kind |-> "float", val |-> n]

\* orientation_prob arguments: a float (in thousandths), an int, or NaN.
ProbFloat(milli) == [kind |-> "float", val |-> milli]
ProbInt(n)       == [kind |-> "int",   val |-> n]
ProbNaN          == [kind |-> "nan",   val |-> 0]

\* float(x): the float value of a numeric argument, in thousandths.
Float(x) ==
    CASE x.kind = "float" -> [nan |-> FALSE, milli |-> x.val]
      [] x.kind = "int"   -> [nan |-> FALSE, milli |-> x.val * 1000]
      [] x.kind = "nan"   -> [nan |-> TRUE,  milli |-> 0]

\* a <= b on floats: every comparison with NaN is false.
FloatLe(a, b) == ~a.nan /\ ~b.nan /\ a.milli <= b.milli

--------------------------------------------------------------------------
(* Seed normalisation: tarot_core.py lines 207-219 *)

\* hashlib.sha256(text.encode("utf-8")).digest() for the text seeds used:
\* the 32 digest bytes.
Sha256Digest(text) ==
    CASE text = "demo-seed" ->
           << 94, 162, 237,  41, 142,  62,  65, 104, 122, 221,  39, 213,  41, 245,
              47, 205,  58,  19, 202,  99,  36, 171,  31, 218, 198,  38,  45, 216,
             195,  34, 111, 164 >>
      [] text = "" ->
           << 227, 176, 196,  66, 152, 252,  28,  20, 154, 251, 244, 200, 153, 111,
              185,  36,  39, 174,  65, 228, 100, 155, 147,  76, 164, 149, 153,  27,
              120,  82, 184,  85 >>
      [] text = "demo-user-001" ->
           << 127, 117, 180, 228, 223, 189, 206, 244, 176, 193, 126, 171,  24, 132,
              236,  38,  13,   7, 230, 231,  44,  11, 233,  58, 238, 197, 160, 160,
               90, 228, 129, 104 >>

RECURSIVE StripLeadingZeros(_)
StripLeadingZeros(bytes) ==
    IF bytes = <<>> THEN <<>>
    ELSE IF Head(bytes) = 0 THEN StripLeadingZeros(Tail(bytes))
    ELSE bytes

\* int.from_bytes(bytes, byteorder="big", signed=False)
IntFromBytesBig(bytes) == PyInt(FALSE, StripLeadingZeros(bytes))

RECURSIVE Reverse(_)
Reverse(seq) == IF seq = <<>> THEN <<>> ELSE Append(Reverse(Tail(seq)), Head(seq))

\* A normaliser that reads the digest bytes with byteorder="little".
NormSeedLittleEndian(seed) ==
    CASE seed.kind = "none" -> Return(None)
      [] seed.kind = "int"  -> Return(Some(PyInt(seed.neg, seed.mag)))
      [] seed.kind = "str"  ->
           LET h == Sha256Digest(seed.text)
           IN  Return(Some(IntFromBytesBig(Reverse(SubSeq(h, 1, 8)))))
      [] OTHER -> Raise("InvalidParameterError", "seed_type")

\* Optional[int], or InvalidParameterError for another type.
_norm_seed(seed) ==
    CASE seed.kind = "none" -> Return(None)
      [] seed.kind = "int"  -> Return(Some(PyInt(seed.neg, seed.mag)))
      [] seed.kind = "str"  ->
           LET h == Sha256Digest(seed.text)
           IN  Return(Some(IntFromBytesBig(SubSeq(h, 1, 8))))
      [] OTHER -> Raise("InvalidParameterError", "seed_type")

--------------------------------------------------------------------------
(* The pseudo-random source: random.Random, tarot_core.py lines 230, 325, 334 *)
(* The generator is a deterministic stream fixed by its seed; it is        *)
(* modelled by a linear congruential generator over 0 .. RngModulus - 1.   *)

RngModulus    == 65537
RngMultiplier == 75
RngIncrement  == 74

RECURSIVE FoldBytes(_, _)
\* the magnitude's value modulo RngModulus
FoldBytes(mag, acc) ==
    IF mag = <<>> THEN acc
    ELSE FoldBytes(Tail(mag), (acc * 256 + Head(mag)) % RngModulus)

\* A generator created without its seed: random.Random().
NewRandomUnseeded(norm_seed, e) == e % RngModulus

\* random.Random(x): seeded from abs(x) for an int, from OS entropy for None.
NewRandom(norm_seed, e) ==
    IF norm_seed = None THEN e % RngModulus
    ELSE FoldBytes(norm_seed[1].mag, 0)

RngAdvance(rng) == (RngMultiplier * rng + RngIncrement) % RngModulus

\* rng.randint(0, i): an integer in 0 .. i (inclusive), and the advanced generator.
RngRandint(rng, i) ==
    LET s == RngAdvance(rng) IN [value |-> s % (i + 1), rng |-> s]

\* A draw that excludes its upper bound, as rng.randrange(a, b) does.
RandrangeValues(a, b) == a .. (b - 1)

\* The values rng.randint(a, b) may return, whatever the generator: a <= j <= b.
RandintValues(a, b) == a .. b

\* rng.random(): a real in [0, 1) given as the numerator over RngModulus,
\* and the advanced generator.
RngRandom(rng) ==
    LET s == RngAdvance(rng) IN [value |-> s, rng |-> s]

\* The comparison with its operands swapped: p < r.
RandomGreater(num, p) == ~p.nan /\ p.milli * RngModulus < num * 1000

\* r < p for r = num / RngModulus and the float p
RandomLess(num, p) == ~p.nan /\ num * 1000 < p.milli * RngModulus

--------------------------------------------------------------------------
(* Shuffle: tarot_core.py lines 222-232 *)

\* A swap that forgets the second assignment: arr[i] = arr[j] only.
SwapLossy(arr, i, j) == [arr EXCEPT ![i + 1] = arr[j + 1]]

\* arr[i], arr[j] = arr[j], arr[i] (0-based i, j)
Swap(arr, i, j) == [arr EXCEPT ![i + 1] = arr[j + 1], ![j + 1] = arr[i + 1]]

\* The loop body for index st.i once rng.randint(0, i) has returned r (its
\* value and the advanced generator): the swap, then i - 1.
ShuffleStepDrawn(st, r) ==
    [arr |-> Swap(st.arr, st.i, r.value), rng |-> r.rng, i |-> st.i - 1]

\* One iteration of the loop: the body for index st.i, then i - 1.
ShuffleStep(st) == ShuffleStepDrawn(st, RngRandint(st.rng, st.i))

RECURSIVE ShuffleLoop(_)
\* for i in range(n - 1, 0, -1): the remaining iterations.
ShuffleLoop(st) ==
    IF st.i < 1 THEN st ELSE ShuffleLoop(ShuffleStep(st))

\* `arr = items` in place of `arr = items[:]`: no new list object.
ListAlias(items_ref, fresh_ref) == items_ref

\* arr = items[:]: the slice is a new list object; the reference arr holds.
ListSlice(items_ref, fresh_ref) == fresh_ref

\* The loop's state before its first iteration: arr holds the items of the
\* copy, n = len(arr) and i = n - 1, the first value of range(n - 1, 0, -1).
ShuffleInit(items, rng) == [arr |-> items, rng |-> rng, i |-> Len(items) - 1]

\* Works on a copy; returns the new list and the generator.
_fisher_yates_shuffle(items, rng) == ShuffleLoop(ShuffleInit(items, rng))

--------------------------------------------------------------------------
(* Draw: tarot_core.py lines 249-346 *)

\* Metadata from the registry, or the fallback record.
_serialize_drawn_card(card_id, orientation, position, index) ==
    IF card_id \notin DOMAIN CARD_ID_INDEX
    THEN [card_id |-> card_id, card_name |-> card_id, suit |-> "major",
          rank |-> "?", orientation |-> orientation, position |-> position,
          index |-> index]
    ELSE LET c == CARD_REGISTRY[CARD_ID_INDEX[card_id] + 1]
         IN  [card_id |-> c.id, card_name |-> c.name, suit |-> c.suit,
              rank |-> c.rank, orientation |-> orientation,
              position |-> position, index |-> index]

\* A loop body that binds the spread's positions from the last one backwards.
DrawStepReversedPositions(st, picked, spread_def, prob) ==
    LET r      == RngRandom(st.rng)
        orient == IF RandomLess(r.value, Float(prob)) THEN "reversed" ELSE "upright"
        pos    == IF spread_def # None
                  THEN Some(spread_def[1].positions[
                              Len(spread_def[1].positions) - st.idx])
                  ELSE None
    IN  [cards |-> Append(st.cards,
                          _serialize_drawn_card(picked[st.idx + 1], orient, pos, st.idx)),
         rng   |-> r.rng,
         idx   |-> st.idx + 1]

\* A loop body that takes the orientation from the module-level generator
\* (random.random()) and leaves the invocation's own generator as it is.
DrawStepModuleRandom(st, picked, spread_def, prob) ==
    LET r      == RngRandom(0)
        orient == IF RandomLess(r.value, Float(prob)) THEN "reversed" ELSE "upright"
        pos    == IF spread_def # None
                  THEN Some(spread_def[1].positions[st.idx + 1])
                  ELSE None
    IN  [cards |-> Append(st.cards,
                          _serialize_drawn_card(picked[st.idx + 1], orient, pos, st.idx)),
         rng   |-> st.rng,
         idx   |-> st.idx + 1]

\* One iteration of the orientation/position loop: the body for st.idx.
DrawStep(st, picked, spread_def, prob) ==
    LET r      == RngRandom(st.rng)
        orient == IF RandomLess(r.value, Float(prob)) THEN "reversed" ELSE "upright"
        pos    == IF spread_def # None
                  THEN Some(spread_def[1].positions[st.idx + 1])
                  ELSE None
    IN  [cards |-> Append(st.cards,
                          _serialize_drawn_card(picked[st.idx + 1], orient, pos, st.idx)),
         rng   |-> r.rng,
         idx   |-> st.idx + 1]

RECURSIVE DrawLoop(_, _, _, _)
\* for idx, cid in enumerate(picked): the remaining iterations.
DrawLoop(st, picked, spread_def, prob) ==
    IF st.idx >= Len(picked) THEN st
    ELSE DrawLoop(DrawStep(st, picked, spread_def, prob), picked, spread_def, prob)

\* A slice from the other end: shuffled[-num_cards:].
PickFromEnd(seq, n) ==
    SubSeq(seq, (IF n < Len(seq) THEN Len(seq) - n ELSE 0) + 1, Len(seq))

\* An off-by-one slice: shuffled[:num_cards - 1].
PrefixShort(seq, n) == SubSeq(seq, 1, IF n - 1 < Len(seq) THEN n - 1 ELSE Len(seq))

\* shuffled[:num_cards]
Prefix(seq, n) == SubSeq(seq, 1, IF n < Len(seq) THEN n ELSE Len(seq))

\* The dict returned at lines 340-346.
DrawResult(req, spread_def, norm_seed, result_cards) ==
    [seed      |-> norm_seed,
     spread    |-> IF spread_def # None THEN Some(spread_def[1].id) ELSE None,
     deck_type |-> req.deck_type,
     meta      |-> [num_cards |-> req.num_cards.val,
                    orientation_prob |-> Float(req.orientation_prob)],
     cards     |-> result_cards]

\* draw_cards after validation: RNG, shuffle, pick, orientation and positions.
DrawBody(req, deck, spread_def, norm_seed, e) ==
    LET rng      == NewRandom(norm_seed, e)
        shuffled == _fisher_yates_shuffle(deck, rng)
        picked   == Prefix(shuffled.arr, req.num_cards.val)
        done     == DrawLoop([cards |-> <<>>, rng |-> shuffled.rng, idx |-> 0],
                             picked, spread_def, req.orientation_prob)
    IN  Return(DrawResult(req, spread_def, norm_seed, done.cards))

\* A length check that reports the mismatch as a parameter error.
ResolveSpreadAsParameterError(spread, num_cards) ==
    IF spread = None THEN Return(None)
    ELSE LET got == get_spread(spread[1])
         IN  IF got.status = "error" THEN got
             ELSE IF Len(got.result.positions) # num_cards
                  THEN Raise("InvalidParameterError", "card_count_mismatch")
                  ELSE Return(Some(got.result))

\* The spread lookup and length check of lines 315-321: Optional[SpreadDef],
\* or InvalidSpreadError.
ResolveSpread(spread, num_cards) ==
    IF spread = None THEN Return(None)
    ELSE LET got == get_spread(spread[1])
         IN  IF got.status = "error" THEN got
             ELSE IF Len(got.result.positions) # num_cards
                  THEN Raise("InvalidSpreadError", "card_count_mismatch")
                  ELSE Return(Some(got.result))

\* Strict bounds: 0.0 < float(orientation_prob) < 1.0.
ProbInRangeStrict(prob) ==
    /\ ~Float(prob).nan
    /\ 0 < Float(prob).milli
    /\ Float(prob).milli < 1000

\* 0.0 <= float(orientation_prob) <= 1.0
ProbInRange(prob) ==
    /\ FloatLe([nan |-> FALSE, milli |-> 0], Float(prob))
    /\ FloatLe(Float(prob), [nan |-> FALSE, milli |-> 1000])

\* An off-by-one bound: num_cards >= len(deck).
ExceedsDeckOffByOne(num_cards, deck) == num_cards >= Len(deck)

\* num_cards > len(deck)
ExceedsDeck(num_cards, deck) == num_cards > Len(deck)

\* The checks with the seed normalised first, as step 1.
DrawPreludeSeedFirst(req) ==
    LET ns == _norm_seed(req.seed) IN
    IF ns.status = "error" THEN ns
    ELSE IF req.num_cards.kind # "int" \/ req.num_cards.val <= 0
    THEN Raise("InvalidParameterError", "num_cards_not_positive_integer")
    ELSE IF ~ProbInRange(req.orientation_prob)
    THEN Raise("InvalidParameterError", "orientation_prob_out_of_range")
    ELSE LET deck == build_deck(req.deck_type) IN
    IF deck.status = "error" THEN deck
    ELSE IF ExceedsDeck(req.num_cards.val, deck.result)
    THEN Raise("InvalidParameterError", "num_cards_exceeds_deck")
    ELSE LET sp == ResolveSpread(req.spread, req.num_cards.val) IN
    IF sp.status = "error" THEN sp
    ELSE Return([deck |-> deck.result, spread_def |-> sp.result,
                 norm_seed |-> ns.result])

\* draw_cards up to and including seed normalisation (lines 305-324): the
\* deck, the resolved spread and the normalised seed, or the error raised.
DrawPrelude(req) ==
    IF req.num_cards.kind # "int" \/ req.num_cards.val <= 0
    THEN Raise("InvalidParameterError", "num_cards_not_positive_integer")
    ELSE IF ~ProbInRange(req.orientation_prob)
    THEN Raise("InvalidParameterError", "orientation_prob_out_of_range")
    ELSE LET deck == build_deck(req.deck_type) IN
    IF deck.status = "error" THEN deck
    ELSE IF ExceedsDeck(req.num_cards.val, deck.result)
    THEN Raise("InvalidParameterError", "num_cards_exceeds_deck")
    ELSE LET sp == ResolveSpread(req.spread, req.num_cards.val) IN
    IF sp.status = "error" THEN sp
    ELSE LET ns == _norm_seed(req.seed) IN
    IF ns.status = "error" THEN ns
    ELSE Return([deck |-> deck.result, spread_def |-> sp.result,
                 norm_seed |-> ns.result])

\* draw_cards: the outcome of a call with arguments req, where e is the OS
\* entropy an unseeded generator reads.
draw_cards(req, e) ==
    LET pre == DrawPrelude(req)
    IN  IF pre.status = "error" THEN pre
        ELSE DrawBody(req, pre.result.deck, pre.result.spread_def,
                      pre.result.norm_seed, e)

\* Whether the call reaches random.Random(None), which reads OS entropy.
ReadsEntropy(req) ==
    LET pre == DrawPrelude(req)
    IN  pre.status = "ok" /\ pre.result.norm_seed = None

Request(num_cards, spread, seed, orientation_prob, deck_type) ==
    [num_cards |-> num_cards, spread |-> spread, seed |-> seed,
     orientation_prob |-> orientation_prob, deck_type |-> deck_type]

--------------------------------------------------------------------------
(* Orchestration: logic.py lines 35-201 *)

\* CARD_ASSETS_DIR: <project root>/assets/cards
CARD_ASSETS_DIR == "<root>/assets/cards"

\* get_card_image_path: os.path.join(CARD_ASSETS_DIR, f"{card_id}.{ext}")
get_card_image_path(card_id, ext) == CARD_ASSETS_DIR \o "/" \o card_id \o "." \o ext

\* str.strip() on the texts the model uses: blank texts become empty.
Strip(text) == IF text \in {" ", "  ", " \n"} THEN "" ELSE text

\* {**c, "image_path": ...} for every card of the draw
EnrichCards(cards, ext) ==
    [k \in 1 .. Len(cards) |->
        [card_id |-> cards[k].card_id, card_name |-> cards[k].card_name,
         suit |-> cards[k].suit, rank |-> cards[k].rank,
         orientation |-> cards[k].orientation, position |-> cards[k].position,
         index |-> cards[k].index,
         image_path |-> get_card_image_path(cards[k].card_id, ext)]]

\* The base text, the question line and one line per card.
_build_llm_prompt(question, cards) ==
    LET q == Strip(IF question = None THEN "" ELSE question[1])
    IN  [base     |-> "_BASE_PROMPT_ZH",
         question |-> IF q # "" THEN q ELSE "(NONE)",
         lines    |-> [k \in 1 .. Len(cards) |->
                        <<cards[k].index, cards[k].card_name, cards[k].card_id,
                          cards[k].orientation,
                          IF cards[k].position = None THEN "-"
                          ELSE cards[k].position[1]>>]]

\* The text put in place of a blank response (line 195; the source's literal
\* is a Chinese sentence saying the reader gave no opinion).
DefaultResponseText == "(the tarot reader gave no opinion)"

\* Behaviours of the collaborator llm_chat: it returns a text or raises.
LlmReturns(text)    == [kind |-> "return", cls |-> "", text |-> text]
LlmRaises(cls, msg) == [kind |-> "raise",  cls |-> cls, text |-> msg]
LlmNotCalled        == [kind |-> "none",   cls |-> "", text |-> ""]

\* Lines 186-199: the llm block of the result, given what llm_chat does.
LlmBlock(explain, prompt, llm) ==
    IF ~explain
    THEN [prompt |-> None, response_text |-> None, error |-> None]
    ELSE IF llm.kind = "return"
    THEN [prompt |-> Some(prompt),
          response_text |-> Some(IF Strip(llm.text) = ""
                                 THEN DefaultResponseText ELSE llm.text),
          error |-> None]
    ELSE IF IsSubclass(llm.cls, "Exception")
    THEN [prompt |-> Some(prompt), response_text |-> None,
          error |-> Some(llm.cls \o ": " \o llm.text)]
    ELSE [prompt |-> Some(prompt), response_text |-> None, error |-> None]

\* The reading assembled from a successful draw (lines 158-201).
ReadingResult(draw, args, llm) ==
    LET enriched == EnrichCards(draw.cards, args.image_ext)
    IN  [meta  |-> [seed |-> draw.seed, spread |-> draw.spread,
                    deck_type |-> draw.deck_type,
                    orientation_prob |-> draw.meta.orientation_prob,
                    question |-> IF args.question = None \/ args.question = Some("")
                                 THEN None ELSE args.question,
                    explain_with_llm |-> args.explain_with_llm],
         cards |-> enriched,
         llm   |-> LlmBlock(args.explain_with_llm,
                            _build_llm_prompt(args.question, enriched), llm)]

\* An orchestration without the try/except around llm_chat.
PerformReadingUncaught(args, llm, e) ==
    LET draw == draw_cards(Request(args.num_cards, args.spread, args.seed,
                                   args.orientation_prob, "rws"), e)
    IN  IF draw.status = "error" THEN draw
        ELSE IF args.explain_with_llm /\ llm.kind = "raise"
        THEN Raise(llm.cls, llm.text)
        ELSE Return(ReadingResult(draw.result, args, llm))

\* perform_reading: the draw's error propagates; an exception of llm_chat
\* that `except Exception` does not catch propagates too.
perform_reading(args, llm, e) ==
    LET draw == draw_cards(Request(args.num_cards, args.spread, args.seed,
                                   args.orientation_prob, "rws"), e)
    IN  IF draw.status = "error" THEN draw
        ELSE IF args.explain_with_llm /\ llm.kind = "raise"
                /\ ~IsSubclass(llm.cls, "Exception")
        THEN Raise(llm.cls, llm.text)
        ELSE Return(ReadingResult(draw.result, args, llm))

ReadingArgs(num_cards, spread, seed, orientation_prob, question, explain, ext) ==
    [num_cards |-> num_cards, spread |-> spread, seed |-> seed,
     orientation_prob |-> orientation_prob, question |-> question,
     explain_with_llm |-> explain, image_ext |-> ext]

\* The draw request a reading makes (line 150-156).
ReadingRequest(args) ==
    Request(args.num_cards, args.spread, args.seed, args.orientation_prob, "rws")

--------------------------------------------------------------------------
(* Inputs *)

SpreadIds == {"single", "three_card", "five_card", "celtic_cross", "horseshoe"}
Spreads   == {None} \cup {Some(id) : id \in SpreadIds}

TwoPow64  == <<1, 0, 0, 0, 0, 0, 0, 0, 0>>
Seeds     == {SeedNone, SeedInt(FALSE, <<42>>), SeedInt(TRUE, <<42>>),
              SeedInt(FALSE, TwoPow64), SeedStr("demo-seed"), SeedStr(""),
              SeedFloat("1.5")}

Probs     == {ProbFloat(0 - 10), ProbFloat(0), ProbFloat(350), ProbFloat(1000),
              ProbFloat(1010), ProbInt(1), ProbNaN}

Counts    == {CountInt(n) : n \in (0 - CountSlack) .. (DeckSize + CountSlack)}
             \cup {CountFloat(3)}

DeckTypes == {"rws", "thoth"}

Entropies == 0 .. MaxEntropy

Requests ==
    {Request(n, sp, sd, pr, dt) :
        n \in Counts, sp \in Spreads, sd \in Seeds, pr \in Probs, dt \in DeckTypes}

\* Readings are requested over a smaller range of draws.
ReadingCounts == {CountInt(0), CountInt(1), CountInt(3)}
ReadingSpreads == {None, Some("three_card"), Some("horseshoe")}
ReadingSeeds  == {SeedNone, SeedStr("demo-seed"), SeedFloat("1.5")}
ReadingProbs  == {ProbFloat(350), ProbFloat(1010)}
Questions     == {None, Some(""), Some("  "), Some("Should I change jobs?")}
ImageExts     == {"png"}

LlmBehaviours ==
    {LlmReturns("The cards point to change."), LlmReturns(""), LlmReturns(" \n"),
     LlmRaises("RuntimeError", "Missing GEMINI_TOKEN in environment."),
     LlmRaises("ValueError", "response blocked")}

ReadingArgsSet ==
    {ReadingArgs(n, sp, sd, pr, q, ex, ext) :
        n \in ReadingCounts, sp \in ReadingSpreads, sd \in ReadingSeeds,
        pr \in ReadingProbs, q \in Questions, ex \in BOOLEAN, ext \in ImageExts}

\* The draws repeated by the two-call scenarios.
PairRequests ==
    {Request(n, sp, sd, pr, "rws") :
        n \in {CountInt(0), CountInt(1), CountInt(3), CountInt(5)},
        sp \in {None, Some("three_card"), Some("horseshoe")},
        sd \in {SeedNone, SeedInt(FALSE, <<42>>), SeedStr("demo-seed")},
        pr \in {ProbFloat(350), ProbFloat(1000)}}

\* The seeded draws of different sizes compared with one another.
PrefixRequests ==
    {Request(n, sp, sd, pr, "rws") :
        n \in {CountInt(1), CountInt(3), CountInt(10), CountInt(DeckSize)},
        sp \in {None, Some("three_card"), Some("celtic_cross")},
        sd \in {SeedInt(FALSE, <<42>>), SeedStr("demo-seed")},
        pr \in {ProbFloat(350), ProbFloat(500)}}

\* The draws made step by step by the concurrent callers.
StepRequests ==
    {Request(CountInt(3), Some("three_card"), SeedStr("demo-seed"),
             ProbFloat(500), "rws"),
     Request(CountInt(1), None, SeedNone, ProbFloat(350), "rws"),
     Request(CountInt(5), Some("three_card"), SeedStr("demo-seed"),
             ProbFloat(500), "rws")}

RECURSIVE Alternating(_, _)
\* A list of n items in which two values alternate.
Alternating(pair, n) ==
    IF n = 0 THEN <<>> ELSE Append(Alternating(pair, n - 1), pair[(n % 2) + 1])

\* The lists given to the shuffle on its own: the first cards of the deck
\* (distinct items) and lists with repeated items, of every length up to
\* MaxItems.
ShuffleInputs ==
    {SubSeq(CardIds(_build_rws_registry), 1, n) : n \in 0 .. MaxItems}
    \cup {Alternating(<<"minor_cups_ace", "minor_cups_2">>, n) : n \in 2 .. MaxItems}

--------------------------------------------------------------------------
(* Invocations in progress: the frame of a call and the objects it creates *)

\* The threads that call into the module.
Callers == 1 .. 2

\* The list object build_deck returns to caller p's invocation (line 200: a
\* list comprehension makes a new list) and that is passed on as `items`.
ItemsRef(p) == <<p, "items">>
\* The list object a slice makes in caller p's invocation.
ArrRef(p) == <<p, "arr">>
\* One generator shared by every invocation, as the module-level functions
\* random.seed / random.randint / random.random are.
SharedGenRef(p) == <<0, "rng">>
\* The generator object random.Random(norm_seed) makes in caller p's
\* invocation (line 325): a new object for each call.
GenRef(p) == <<p, "rng">>

ListRefs == UNION {{ItemsRef(p), ArrRef(p)} : p \in Callers}
GenRefs  == {GenRef(p) : p \in Callers}

\* The local variables of draw_cards and _fisher_yates_shuffle; `log` lists
\* the numbers the invocation has taken from its generator, in order.
IdleFrame ==
    [pc |-> "idle", req |-> None, entropy |-> None, norm_seed |-> None,
     spread_def |-> None, items |-> None, arr |-> None, rng |-> None,
     i |-> 0, picked |-> <<>>, idx |-> 0, cards |-> <<>>, log |-> <<>>,
     out |-> None]

--------------------------------------------------------------------------
(* State machine *)

NoArgs == [question |-> None, explain_with_llm |-> FALSE, image_ext |-> ""]

Init ==
    /\ CARD_REGISTRY = _build_rws_registry
    /\ CARD_ID_INDEX = BuildCardIdIndex(_build_rws_registry)
    /\ SPREAD_REGISTRY = SpreadRegistryInit
    /\ pc = "idle"
    /\ call = None
    /\ entropy = None
    /\ out = None
    /\ llm_calls = 0
    /\ memo = None
    /\ frames = [p \in Callers |-> IdleFrame]
    /\ lists = [ref \in ListRefs |-> <<>>]
    /\ gens = [ref \in GenRefs |-> 0]

Registries == <<CARD_REGISTRY, CARD_ID_INDEX, SPREAD_REGISTRY>>

\* The invocations in progress and the objects they hold.
Running == <<frames, lists, gens>>

\* The call ended last and its outcome, as the caller of a whole call sees them.
Ended == <<pc, call, entropy, out, llm_calls, memo>>

\* A caller invokes draw_cards(req) and the call runs to its end.
DrawCards(req) ==
    /\ pc = "idle"
    /\ \E e \in Entropies :
         /\ out' = Some(draw_cards(req, e))
         /\ entropy' = IF ReadsEntropy(req) THEN Some(e) ELSE None
    /\ call' = Some([op |-> "draw_cards", req |-> req, args |-> NoArgs,
                     llm |-> LlmNotCalled])
    /\ pc' = "returned"
    /\ llm_calls' = 0
    /\ UNCHANGED <<Registries, memo, Running>>

\* A caller invokes perform_reading(args); llm_chat, if the call reaches
\* it, behaves as llm.
PerformReading(args, llm) ==
    /\ pc = "idle"
    /\ LET req     == ReadingRequest(args)
           reaches == args.explain_with_llm /\ DrawPrelude(req).status = "ok"
       IN  /\ (llm = LlmNotCalled) <=> ~reaches
           /\ \E e \in Entropies :
                /\ out' = Some(perform_reading(args, llm, e))
                /\ entropy' = IF ReadsEntropy(req) THEN Some(e) ELSE None
           /\ call' = Some([op |-> "perform_reading", req |-> req, args |->
                            [question |-> args.question,
                             explain_with_llm |-> args.explain_with_llm,
                             image_ext |-> args.image_ext],
                            llm |-> llm])
           /\ llm_calls' = IF reaches THEN 1 ELSE 0
    /\ pc' = "returned"
    /\ UNCHANGED <<Registries, memo, Running>>

\* The caller consumes the outcome; nothing of the call is kept.
Consume ==
    /\ pc = "returned"
    /\ pc' = "idle"
    /\ call' = None
    /\ entropy' = None
    /\ out' = None
    /\ llm_calls' = 0
    /\ UNCHANGED <<Registries, memo, Running>>

\* The caller consumes the outcome and the observer keeps a record of the
\* call: its arguments and what it returned or raised.
Keep ==
    /\ pc = "returned"
    /\ memo' = Some([call |-> call[1], out |-> out[1]])
    /\ pc' = "idle"
    /\ call' = None
    /\ entropy' = None
    /\ out' = None
    /\ llm_calls' = 0
    /\ UNCHANGED <<Registries, Running>>

Next ==
    \/ (pc = "idle" /\ \E req \in Requests : DrawCards(req))
    \/ (pc = "idle" /\ \E args \in ReadingArgsSet,
                          llm \in LlmBehaviours \cup {LlmNotCalled} :
                            PerformReading(args, llm))
    \/ Consume

Spec == Init /\ [][Next]_vars

\* Two-call scenarios: a sequence of draws of which the observer keeps one.
NextPairs ==
    \/ (pc = "idle" /\ \E req \in PairRequests : DrawCards(req))
    \/ Keep
    \/ Consume

SpecPairs == Init /\ [][NextPairs]_vars

\* Draws of different sizes from the same seeds, of which the observer
\* keeps one.
NextPrefix ==
    \/ (pc = "idle" /\ \E req \in PrefixRequests : DrawCards(req))
    \/ Keep
    \/ Consume

SpecPrefix == Init /\ [][NextPrefix]_vars

--------------------------------------------------------------------------
(* draw_cards step by step, for callers that run concurrently *)

\* Lines 305-325 and 227-228: the checks, the deck, the spread, the seed, the
\* generator, and the shuffle's copy of the deck; or the error raised.
DrawBegin(p, req) ==
    /\ frames[p].pc = "idle"
    /\ LET pre == DrawPrelude(req) IN
        IF pre.status = "error"
        THEN /\ frames' = [frames EXCEPT ![p] =
                    [IdleFrame EXCEPT !.pc = "returned", !.req = Some(req),
                                      !.out = Some(pre)]]
             /\ UNCHANGED <<lists, gens>>
        ELSE \E e \in Entropies :
               /\ (pre.result.norm_seed # None) => (e = 0)
               /\ LET rng == NewRandom(pre.result.norm_seed, e)
                      st  == ShuffleInit(pre.result.deck, rng)
                  IN  /\ lists' = [lists EXCEPT ![ItemsRef(p)] = pre.result.deck,
                                                ![ArrRef(p)]   = st.arr]
                      /\ gens' = [gens EXCEPT ![GenRef(p)] = st.rng]
                      /\ frames' = [frames EXCEPT ![p] =
                            [IdleFrame EXCEPT
                               !.pc = "shuffle", !.req = Some(req),
                               !.entropy = IF pre.result.norm_seed = None
                                           THEN Some(e) ELSE None,
                               !.norm_seed = pre.result.norm_seed,
                               !.spread_def = pre.result.spread_def,
                               !.items = Some(ItemsRef(p)),
                               !.arr = Some(ListSlice(ItemsRef(p), ArrRef(p))),
                               !.rng = Some(GenRef(p)),
                               !.i = st.i]]
    /\ UNCHANGED <<Registries, Ended>>

\* Lines 229-231: one iteration of the shuffle loop, on the invocation's
\* list arr with its generator rng.
ShuffleIter(p) ==
    /\ frames[p].pc = "shuffle"
    /\ frames[p].i >= 1
    /\ LET f  == frames[p]
           st == ShuffleStep([arr |-> lists[f.arr[1]], rng |-> gens[f.rng[1]],
                              i |-> f.i])
       IN  /\ lists' = [lists EXCEPT ![f.arr[1]] = st.arr]
           /\ gens' = [gens EXCEPT ![f.rng[1]] = st.rng]
           /\ frames' = [frames EXCEPT
                 ![p].i = st.i,
                 ![p].log = Append(@, [op |-> "randint", arg |-> f.i,
                                       rng |-> st.rng])]
    /\ UNCHANGED <<Registries, Ended>>

\* Lines 232 and 328-332: the loop has ended; the shuffle returns arr, the
\* draw takes its first num_cards items and starts with no result cards.
ShuffleDone(p) ==
    /\ frames[p].pc = "shuffle"
    /\ frames[p].i < 1
    /\ frames' = [frames EXCEPT
          ![p].pc = "orient",
          ![p].picked = Prefix(lists[frames[p].arr[1]],
                               frames[p].req[1].num_cards.val),
          ![p].idx = 0,
          ![p].cards = <<>>]
    /\ UNCHANGED <<lists, gens, Registries, Ended>>

\* Lines 333-338: one iteration of the orientation and position loop.
OrientIter(p) ==
    /\ frames[p].pc = "orient"
    /\ frames[p].idx < Len(frames[p].picked)
    /\ LET f  == frames[p]
           st == DrawStep([cards |-> f.cards, rng |-> gens[f.rng[1]],
                           idx |-> f.idx],
                          f.picked, f.spread_def, f.req[1].orientation_prob)
       IN  /\ gens' = [gens EXCEPT ![f.rng[1]] = st.rng]
           /\ frames' = [frames EXCEPT
                 ![p].cards = st.cards,
                 ![p].idx = st.idx,
                 ![p].log = Append(@, [op |-> "random", arg |-> f.idx,
                                       rng |-> gens'[f.rng[1]]])]
    /\ UNCHANGED <<lists, Registries, Ended>>

\* Lines 340-346: the loop has ended; the call returns its result.
DrawReturn(p) ==
    /\ frames[p].pc = "orient"
    /\ frames[p].idx >= Len(frames[p].picked)
    /\ frames' = [frames EXCEPT
          ![p].pc = "returned",
          ![p].out = Some(Return(DrawResult(frames[p].req[1], frames[p].spread_def,
                                            frames[p].norm_seed, frames[p].cards)))]
    /\ UNCHANGED <<lists, gens, Registries, Ended>>

\* The caller takes the outcome; the invocation's frame and the objects it
\* made are gone.
StepConsume(p) ==
    /\ frames[p].pc = "returned"
    /\ frames' = [frames EXCEPT ![p] = IdleFrame]
    /\ lists' = [lists EXCEPT ![ItemsRef(p)] = <<>>, ![ArrRef(p)] = <<>>]
    /\ gens' = [gens EXCEPT ![GenRef(p)] = 0]
    /\ UNCHANGED <<Registries, Ended>>

NextSteps ==
    \/ \E p \in Callers, req \in StepRequests : DrawBegin(p, req)
    \/ \E p \in Callers : ShuffleIter(p)
    \/ \E p \in Callers : ShuffleDone(p)
    \/ \E p \in Callers : OrientIter(p)
    \/ \E p \in Callers : DrawReturn(p)
    \/ \E p \in Callers : StepConsume(p)

SpecSteps == Init /\ [][NextSteps]_vars

--------------------------------------------------------------------------
(* Properties *)

Returned   == pc = "returned"
TheCall    == call[1]
TheReq     == call[1].req
TheOut     == out[1]
IsDraw     == Returned /\ TheCall.op = "draw_cards"
IsReading  == Returned /\ TheCall.op = "perform_reading"
Succeeded  == Returned /\ TheOut.status = "ok"
Failed     == Returned /\ TheOut.status = "error"
TheCards   == TheOut.result.cards

\* The arguments as the claims describe them.
CountIs(req, lo, hi) ==
    req.num_cards.kind = "int" /\ req.num_cards.val \in lo .. hi
ProbMilli(p) == IF p.kind = "int" THEN p.val * 1000 ELSE p.val
ProbValid(p) == p.kind \in {"float", "int"} /\ ProbMilli(p) \in 0 .. 1000
SeedValid(sd) == sd.kind \in {"none", "int", "str"}
SpreadMatches(req) ==
    \/ req.spread = None
    \/ /\ req.spread[1] \in DOMAIN SpreadRegistryInit
       /\ CountIs(req, Len(SpreadRegistryInit[req.spread[1]].positions),
                       Len(SpreadRegistryInit[req.spread[1]].positions))
DeckIds == {_build_rws_registry[k].id : k \in 1 .. Len(_build_rws_registry)}

\* C1: for every count in 1..78 (valid probability, deck "rws", a valid seed,
\* no spread or a spread of that length) draw_cards succeeds with exactly
\* count cards whose index fields are 0, 1, ..., count - 1 in list order.
C1_CountAndIndices ==
    (/\ IsDraw
     /\ CountIs(TheReq, 1, DeckSize)
     /\ ProbValid(TheReq.orientation_prob)
     /\ TheReq.deck_type = "rws"
     /\ SeedValid(TheReq.seed)
     /\ SpreadMatches(TheReq))
    => /\ Succeeded
       /\ Len(TheCards) = TheReq.num_cards.val
       /\ \A k \in 1 .. Len(TheCards) : TheCards[k].index = k - 1

C1_Witness ==
    /\ IsDraw /\ Succeeded
    /\ TheReq.num_cards.val = DeckSize
    /\ TheReq.seed.kind = "str"
    /\ Len(TheCards) = DeckSize
    /\ TheCards[DeckSize].index = DeckSize - 1

\* C2: in every successful draw the card_id values are pairwise distinct and
\* each is an identifier of the 78-card deck of build_deck("rws").
C2_DistinctMembers ==
    Succeeded =>
       /\ \A i, j \in 1 .. Len(TheCards) :
             i # j => TheCards[i].card_id # TheCards[j].card_id
       /\ \A k \in 1 .. Len(TheCards) : TheCards[k].card_id \in DeckIds
       /\ Cardinality(DeckIds) = DeckSize

C2_Witness ==
    /\ IsDraw /\ Succeeded
    /\ Len(TheCards) = 10
    /\ TheReq.seed.kind = "none"
    /\ TheCards[1].card_id # "major_00_the_fool"

\* The record the observer kept of an earlier call.
Kept       == memo[1]
HasKept    == Returned /\ memo # None

\* C3: two draw_cards calls with the same arguments and a seed that is not
\* absent have the same outcome (the same normalized seed, cards in the same
\* order, orientations and positions), whatever draws were made in between.
C3_Determinism ==
    (/\ HasKept
     /\ Kept.call.req = TheReq
     /\ TheReq.seed.kind \in {"int", "str"})
    => Kept.out = TheOut

C3_Witness ==
    /\ HasKept /\ Succeeded
    /\ Kept.call.req = TheReq
    /\ TheReq.seed = SeedStr("demo-seed")
    /\ TheReq.spread = Some("three_card")
    /\ Len(TheCards) = 3
    /\ Kept.out.result.cards = TheCards
    /\ \E k \in 1 .. 3 : TheCards[k].orientation = "reversed"

\* C4: in every successful draw, with a spread the card at index i has that
\* spread's positions[i] as position and the result names the spread's id;
\* with no spread every position and the result's spread are null.
C4_SpreadBinding ==
    Succeeded =>
       IF TheReq.spread # None
       THEN /\ TheReq.spread[1] \in DOMAIN SpreadRegistryInit
            /\ \A k \in 1 .. Len(TheCards) :
                  TheCards[k].position =
                     Some(SpreadRegistryInit[TheReq.spread[1]].positions[k])
            /\ (IsDraw => TheOut.result.spread = TheReq.spread)
            /\ (IsReading => TheOut.result.meta.spread = TheReq.spread)
       ELSE /\ \A k \in 1 .. Len(TheCards) : TheCards[k].position = None
            /\ (IsDraw => TheOut.result.spread = None)
            /\ (IsReading => TheOut.result.meta.spread = None)

C4_Witness ==
    /\ IsDraw /\ Succeeded
    /\ TheReq.spread = Some("celtic_cross")
    /\ Len(TheCards) = 10
    /\ TheCards[1].position = Some("situation")
    /\ TheCards[10].position = Some("outcome")

\* C5: with no spread, a valid probability, deck "rws" (and a valid seed),
\* draw_cards succeeds exactly for the integer counts 1..78; count = 78
\* returns a permutation of the whole deck; counts <= 0 and counts > 78
\* raise an InvalidParameter-kind error.
C5_CountBounds ==
    (/\ IsDraw
     /\ TheReq.spread = None
     /\ ProbValid(TheReq.orientation_prob)
     /\ TheReq.deck_type = "rws"
     /\ SeedValid(TheReq.seed))
    => /\ Succeeded <=> CountIs(TheReq, 1, DeckSize)
       /\ CountIs(TheReq, DeckSize, DeckSize) =>
             /\ Len(TheCards) = DeckSize
             /\ {TheCards[k].card_id : k \in 1 .. Len(TheCards)} = DeckIds
       /\ (TheReq.num_cards.kind = "int" /\ ~CountIs(TheReq, 1, DeckSize)) =>
             /\ Failed
             /\ IsSubclass(TheOut.error.cls, "InvalidParameterError")

C5_Witness ==
    /\ IsDraw /\ Succeeded
    /\ TheReq.spread = None
    /\ TheReq.num_cards = CountInt(DeckSize)
    /\ {TheCards[k].card_id : k \in 1 .. Len(TheCards)} = DeckIds
    /\ \E k \in 1 .. DeckSize : TheCards[k].card_id # _build_rws_registry[k].id

\* C6: draw_cards raises an InvalidParameter-kind error whenever
\* orientation_prob is outside [0.0, 1.0], accepts 0.0 and 1.0, and on
\* success reports the probability passed in meta.orientation_prob.
C6_ProbabilityRange ==
    IsDraw =>
       /\ (TheReq.orientation_prob.kind \in {"float", "int"}
           /\ ProbMilli(TheReq.orientation_prob) \notin 0 .. 1000) =>
             /\ Failed
             /\ IsSubclass(TheOut.error.cls, "InvalidParameterError")
       /\ (/\ ProbMilli(TheReq.orientation_prob) \in {0, 1000}
           /\ TheReq.orientation_prob.kind \in {"float", "int"}
           /\ CountIs(TheReq, 1, DeckSize)
           /\ TheReq.deck_type = "rws"
           /\ SeedValid(TheReq.seed)
           /\ SpreadMatches(TheReq)) => Succeeded
       /\ Succeeded =>
             /\ ~TheOut.result.meta.orientation_prob.nan
             /\ TheOut.result.meta.orientation_prob.milli =
                   ProbMilli(TheReq.orientation_prob)

C6_Witness ==
    /\ IsDraw /\ Succeeded
    /\ TheReq.orientation_prob = ProbFloat(1000)
    /\ TheOut.result.meta.orientation_prob.milli = 1000

\* The spread argument names an unregistered spread / a registered spread
\* whose number of positions differs from the count.
SpreadUnregistered(req) ==
    req.spread # None /\ req.spread[1] \notin DOMAIN SpreadRegistryInit
SpreadMismatched(req) ==
    /\ req.spread # None
    /\ req.spread[1] \in DOMAIN SpreadRegistryInit
    /\ ~CountIs(req, Len(SpreadRegistryInit[req.spread[1]].positions),
                     Len(SpreadRegistryInit[req.spread[1]].positions))
\* The checks made before the spread is looked at pass.
ReachesSpreadCheck(req) ==
    /\ CountIs(req, 1, DeckSize)
    /\ ProbValid(req.orientation_prob)
    /\ req.deck_type = "rws"

\* C7 as stated: a draw naming an unregistered spread and a draw naming a
\* registered spread of another length fail with two distinct error kinds,
\* neither of them InvalidParameter-kind.
C7_DistinctSpreadErrorKinds ==
    (/\ HasKept
     /\ SpreadUnregistered(Kept.call.req) /\ ReachesSpreadCheck(Kept.call.req)
     /\ SpreadMismatched(TheReq) /\ ReachesSpreadCheck(TheReq))
    => /\ Kept.out.status = "error" /\ Failed
       /\ Kept.out.error.cls # TheOut.error.cls
       /\ ~IsSubclass(Kept.out.error.cls, "InvalidParameterError")
       /\ ~IsSubclass(TheOut.error.cls, "InvalidParameterError")

\* C7 as amended: with count, probability and deck type valid, both draws
\* fail with the one kind InvalidSpreadError, which is not
\* InvalidParameter-kind; the two cases differ only in the message.
C7_SpreadErrors ==
    /\ (Returned /\ SpreadUnregistered(TheReq) /\ ReachesSpreadCheck(TheReq)) =>
          /\ Failed
          /\ TheOut.error = [cls |-> "InvalidSpreadError", msg |-> "not_registered"]
          /\ ~IsSubclass(TheOut.error.cls, "InvalidParameterError")
    /\ (Returned /\ SpreadMismatched(TheReq) /\ ReachesSpreadCheck(TheReq)) =>
          /\ Failed
          /\ TheOut.error = [cls |-> "InvalidSpreadError",
                             msg |-> "card_count_mismatch"]
          /\ ~IsSubclass(TheOut.error.cls, "InvalidParameterError")
    /\ (/\ HasKept
        /\ SpreadUnregistered(Kept.call.req) /\ ReachesSpreadCheck(Kept.call.req)
        /\ SpreadMismatched(TheReq) /\ ReachesSpreadCheck(TheReq)) =>
          /\ Kept.out.error.cls = TheOut.error.cls
          /\ Kept.out.error.msg # TheOut.error.msg

C7_Witness ==
    /\ HasKept /\ Failed
    /\ Kept.call.req.spread = Some("horseshoe")
    /\ Kept.out.status = "error"
    /\ TheReq.spread = Some("three_card")
    /\ TheReq.num_cards = CountInt(5)
    /\ TheOut.error.msg = "card_count_mismatch"

\* C8: with orientation_prob = 0.0 every card is upright and with 1.0 every
\* card is reversed, for every seed (absent included) and count; every
\* card's orientation is one of "upright" and "reversed".
C8_OrientationExtremes ==
    Succeeded =>
       /\ \A k \in 1 .. Len(TheCards) :
             TheCards[k].orientation \in {"upright", "reversed"}
       /\ ProbMilli(TheReq.orientation_prob) = 0 =>
             \A k \in 1 .. Len(TheCards) : TheCards[k].orientation = "upright"
       /\ ProbMilli(TheReq.orientation_prob) = 1000 =>
             \A k \in 1 .. Len(TheCards) : TheCards[k].orientation = "reversed"

C8_Witness ==
    /\ IsDraw /\ Succeeded
    /\ TheReq.orientation_prob = ProbFloat(1000)
    /\ TheReq.seed.kind = "none"
    /\ Len(TheCards) = DeckSize
    /\ TheCards[DeckSize].orientation = "reversed"

\* The first eight digest bytes as an unsigned big-endian integer.
TextSeedValue(text) == PyInt(FALSE, StripLeadingZeros(SubSeq(Sha256Digest(text), 1, 8)))
IsU64(v) == ~v.neg /\ Len(v.mag) <= 8 /\ \A k \in 1 .. Len(v.mag) : v.mag[k] \in 0 .. 255

\* C9: an absent seed normalizes to null, an integer seed to itself, a text
\* seed to an unsigned 64-bit integer fixed by the text; a seed of another
\* type is rejected with an InvalidParameter-kind error; the seed field of a
\* successful draw is the normalized value.
C9_SeedNormalization ==
    IsDraw =>
       /\ (Succeeded /\ TheReq.seed.kind = "none") => TheOut.result.seed = None
       /\ (Succeeded /\ TheReq.seed.kind = "int") =>
             TheOut.result.seed = Some(PyInt(TheReq.seed.neg, TheReq.seed.mag))
       /\ (Succeeded /\ TheReq.seed.kind = "str") =>
             /\ TheOut.result.seed # None
             /\ IsU64(TheOut.result.seed[1])
             /\ TheOut.result.seed[1] = TextSeedValue(TheReq.seed.text)
       /\ ~SeedValid(TheReq.seed) => Failed
       /\ (/\ ~SeedValid(TheReq.seed)
           /\ CountIs(TheReq, 1, DeckSize)
           /\ ProbValid(TheReq.orientation_prob)
           /\ TheReq.deck_type = "rws"
           /\ SpreadMatches(TheReq)) =>
             /\ TheOut.error.msg = "seed_type"
             /\ IsSubclass(TheOut.error.cls, "InvalidParameterError")

C9_Witness ==
    /\ IsDraw /\ Succeeded
    /\ TheReq.seed = SeedStr("demo-seed")
    /\ TheOut.result.seed = Some(PyInt(FALSE, <<94, 162, 237, 41, 142, 62, 65, 104>>))

\* What draw_cards returns for the reading's draw request.
TheDraw == draw_cards(TheReq, IF entropy = None THEN 0 ELSE entropy[1])
CardOfReading(c) ==
    [card_id |-> c.card_id, card_name |-> c.card_name, suit |-> c.suit,
     rank |-> c.rank, orientation |-> c.orientation, position |-> c.position,
     index |-> c.index]

\* C10: in perform_reading a failure of the LLM collaborator leaves the draw
\* intact: the call returns, cards and draw meta are those of the draw, the
\* failure shows only as llm.error with llm.response_text null; on success
\* llm.error is null and llm.response_text is not; with explain_with_llm
\* false the collaborator is not called and both fields are null.
C10_LlmFailureIsolated ==
    (IsReading /\ TheDraw.status = "ok") =>
       /\ Succeeded
       /\ Len(TheCards) = Len(TheDraw.result.cards)
       /\ \A k \in 1 .. Len(TheCards) :
             CardOfReading(TheCards[k]) = TheDraw.result.cards[k]
       /\ TheOut.result.meta.seed = TheDraw.result.seed
       /\ TheOut.result.meta.spread = TheDraw.result.spread
       /\ TheOut.result.meta.deck_type = TheDraw.result.deck_type
       /\ TheOut.result.meta.orientation_prob = TheDraw.result.meta.orientation_prob
       /\ TheCall.llm.kind = "raise" =>
             /\ TheOut.result.llm.error # None
             /\ TheOut.result.llm.response_text = None
       /\ TheCall.llm.kind = "return" =>
             /\ TheOut.result.llm.error = None
             /\ TheOut.result.llm.response_text # None
       /\ ~TheCall.args.explain_with_llm =>
             /\ llm_calls = 0
             /\ TheOut.result.llm.error = None
             /\ TheOut.result.llm.response_text = None
       /\ TheCall.args.explain_with_llm => llm_calls = 1

C10_Witness ==
    /\ IsReading /\ Succeeded
    /\ TheCall.llm.kind = "raise"
    /\ Len(TheCards) = 3
    /\ TheOut.result.llm.error # None
    /\ TheOut.result.llm.response_text = None
    /\ CardOfReading(TheCards[3]) = TheDraw.result.cards[3]

--------------------------------------------------------------------------
(* _fisher_yates_shuffle on its own, step by step, with a generator whose  *)
(* draws are arbitrary                                                     *)

\* The thread that calls the shuffle.
ShuffleCaller == 1

\* Lines 227-228: the call with a list `items` of the caller; arr is a copy.
FisherYatesCall(items) ==
    /\ frames[ShuffleCaller].pc = "idle"
    /\ LET p  == ShuffleCaller
           st == ShuffleInit(items, 0)
       IN  /\ lists' = [lists EXCEPT ![ItemsRef(p)] = items, ![ArrRef(p)] = st.arr]
           /\ frames' = [frames EXCEPT ![p] =
                 [IdleFrame EXCEPT
                    !.pc = "fy", !.req = Some(items),
                    !.items = Some(ItemsRef(p)),
                    !.arr = Some(ListSlice(ItemsRef(p), ArrRef(p))),
                    !.i = st.i]]
    /\ UNCHANGED <<gens, Registries, Ended>>

\* Lines 229-231: one iteration; rng.randint(0, i) returns some j.
FisherYatesIter ==
    /\ frames[ShuffleCaller].pc = "fy"
    /\ frames[ShuffleCaller].i >= 1
    /\ LET f == frames[ShuffleCaller] IN
        \E j \in RandintValues(0, f.i) :
           LET st == ShuffleStepDrawn([arr |-> lists[f.arr[1]], rng |-> 0, i |-> f.i],
                                      [value |-> j, rng |-> 0])
           IN  /\ lists' = [lists EXCEPT ![f.arr[1]] = st.arr]
               /\ frames' = [frames EXCEPT
                     ![ShuffleCaller].i = st.i,
                     ![ShuffleCaller].log = Append(@, [op |-> "randint", arg |-> f.i,
                                                       value |-> j])]
    /\ UNCHANGED <<gens, Registries, Ended>>

\* Line 232: the loop has ended; return arr.
FisherYatesReturn ==
    /\ frames[ShuffleCaller].pc = "fy"
    /\ frames[ShuffleCaller].i < 1
    /\ frames' = [frames EXCEPT
          ![ShuffleCaller].pc = "returned",
          ![ShuffleCaller].out = Some(lists[frames[ShuffleCaller].arr[1]])]
    /\ UNCHANGED <<lists, gens, Registries, Ended>>

NextShuffle ==
    \/ \E items \in ShuffleInputs : FisherYatesCall(items)
    \/ FisherYatesIter
    \/ FisherYatesReturn
    \/ StepConsume(ShuffleCaller)

SpecShuffle == Init /\ [][NextShuffle]_vars

\* The registry definitions whose identifier is card_id.
DefinitionsOf(card_id) ==
    {j \in 1 .. Len(CARD_REGISTRY) : CARD_REGISTRY[j].id = card_id}

\* C15: every card of a successful draw carries the name, suit and rank of
\* the one registry definition whose identifier is its card_id; the
\* placeholder record (card_name = card_id, rank "?") is never produced:
\* every drawn identifier resolves in the id lookup, and the 78 registry
\* identifiers are pairwise distinct.
C15_CardMetadata ==
    /\ Len(CARD_REGISTRY) = DeckSize
    /\ Cardinality({CARD_REGISTRY[j].id : j \in 1 .. Len(CARD_REGISTRY)}) = DeckSize
    /\ Succeeded =>
          \A k \in 1 .. Len(TheCards) :
             /\ TheCards[k].card_id \in DOMAIN CARD_ID_INDEX
             /\ Cardinality(DefinitionsOf(TheCards[k].card_id)) = 1
             /\ \A j \in DefinitionsOf(TheCards[k].card_id) :
                   /\ TheCards[k].card_name = CARD_REGISTRY[j].name
                   /\ TheCards[k].suit = CARD_REGISTRY[j].suit
                   /\ TheCards[k].rank = CARD_REGISTRY[j].rank
             /\ TheCards[k].rank # "?"
             /\ TheCards[k].card_name # TheCards[k].card_id

C15_Witness ==
    /\ IsDraw /\ Succeeded
    /\ Len(TheCards) = DeckSize
    /\ \E k \in 1 .. DeckSize :
          /\ TheCards[k].card_id = "minor_swords_queen"
          /\ TheCards[k].card_name = "Queen of Swords"
          /\ TheCards[k].suit = "swords"
          /\ TheCards[k].rank = "queen"
    /\ \E k \in 1 .. DeckSize :
          /\ TheCards[k].card_id = "major_00_the_fool"
          /\ TheCards[k].card_name = "The Fool"
          /\ TheCards[k].suit = "major"
          /\ TheCards[k].rank = "0"

\* The first input constraint a request violates, in the order: count not a
\* positive integer, probability outside [0, 1], unsupported deck type,
\* count above the deck size, unregistered spread, spread length other than
\* count, malformed seed type; "none" when it violates none.
FirstViolation(req) ==
    IF ~(req.num_cards.kind = "int" /\ req.num_cards.val >= 1)
    THEN "num_cards_not_positive_integer"
    ELSE IF ~ProbValid(req.orientation_prob) THEN "orientation_prob_out_of_range"
    ELSE IF req.deck_type # "rws" THEN "unsupported_deck_type"
    ELSE IF req.num_cards.val > DeckSize THEN "num_cards_exceeds_deck"
    ELSE IF SpreadUnregistered(req) THEN "not_registered"
    ELSE IF SpreadMismatched(req) THEN "card_count_mismatch"
    ELSE IF ~SeedValid(req.seed) THEN "seed_type"
    ELSE "none"

ViolationCount(req) ==
    Cardinality({c \in 1 .. 6 :
        CASE c = 1 -> ~(req.num_cards.kind = "int" /\ req.num_cards.val >= 1)
          [] c = 2 -> ~ProbValid(req.orientation_prob)
          [] c = 3 -> req.deck_type # "rws"
          [] c = 4 -> req.num_cards.kind = "int" /\ req.num_cards.val > DeckSize
          [] c = 5 -> SpreadUnregistered(req) \/ SpreadMismatched(req)
          [] c = 6 -> ~SeedValid(req.seed)})

\* C16: a draw_cards call that violates several input constraints raises
\* the error of the first failing check in the order count, probability,
\* deck type, deck size, unregistered spread, spread length, seed type; a
\* malformed seed type is reported only when every other input is valid;
\* a failing call has drawn no random number.
C16_ValidationOrder ==
    IsDraw =>
       /\ Succeeded <=> FirstViolation(TheReq) = "none"
       /\ Failed =>
             /\ TheOut.error.msg = FirstViolation(TheReq)
             /\ TheOut.error.cls =
                   (IF FirstViolation(TheReq) \in {"not_registered", "card_count_mismatch"}
                    THEN "InvalidSpreadError" ELSE "InvalidParameterError")
             /\ entropy = None
             /\ "result" \notin DOMAIN TheOut
             /\ TheOut.error.msg = "seed_type" => ViolationCount(TheReq) = 1

C16_Witness ==
    /\ IsDraw /\ Failed
    /\ TheReq = Request(CountInt(DeckSize + 1), Some("horseshoe"), SeedFloat("1.5"),
                        ProbFloat(350), "thoth")
    /\ ViolationCount(TheReq) = 4
    /\ TheOut.error = [cls |-> "InvalidParameterError", msg |-> "unsupported_deck_type"]

Min(a, b) == IF a <= b THEN a ELSE b

\* C17: for a seed that is not absent and a fixed deck type, two successful
\* draws of k and m cards (any spreads, any probabilities) have the same
\* card identifiers at the same indices on their common first min(k, m)
\* cards, and with the same orientation probability also the same
\* orientations there.
C17_PrefixConsistency ==
    (/\ HasKept /\ Succeeded
     /\ Kept.out.status = "ok"
     /\ Kept.call.req.seed = TheReq.seed
     /\ TheReq.seed.kind \in {"int", "str"}
     /\ Kept.call.req.deck_type = TheReq.deck_type)
    => \A i \in 1 .. Min(Len(Kept.out.result.cards), Len(TheCards)) :
          /\ Kept.out.result.cards[i].card_id = TheCards[i].card_id
          /\ Kept.out.result.cards[i].index = TheCards[i].index
          /\ Kept.call.req.orientation_prob = TheReq.orientation_prob =>
                Kept.out.result.cards[i].orientation = TheCards[i].orientation

C17_Witness ==
    /\ HasKept /\ Succeeded
    /\ Kept.out.status = "ok"
    /\ Kept.call.req = Request(CountInt(DeckSize), None, SeedStr("demo-seed"),
                               ProbFloat(500), "rws")
    /\ TheReq = Request(CountInt(3), Some("three_card"), SeedStr("demo-seed"),
                        ProbFloat(500), "rws")
    /\ Len(Kept.out.result.cards) = DeckSize
    /\ \A i \in 1 .. 3 :
          /\ Kept.out.result.cards[i].card_id = TheCards[i].card_id
          /\ Kept.out.result.cards[i].orientation = TheCards[i].orientation
    /\ TheCards[2].orientation = "reversed"
    /\ TheCards[1].orientation = "upright"

--------------------------------------------------------------------------
(* Properties of the shuffle *)

FY      == frames[ShuffleCaller]
FYInput == FY.req[1]
FYArr   == lists[FY.arr[1]]

Occurrences(seq, x) == Cardinality({k \in 1 .. Len(seq) : seq[k] = x})
Items(seq) == {seq[k] : k \in 1 .. Len(seq)}
\* same items, same multiplicities, same length
IsPermutationOf(a, b) ==
    /\ Len(a) = Len(b)
    /\ \A x \in Items(a) \cup Items(b) : Occurrences(a, x) = Occurrences(b, x)

\* Every way of placing the items of seq.
Rearrangements(seq) ==
    {[k \in 1 .. Len(seq) |-> seq[f[k]]] : f \in Permutations(1 .. Len(seq))}

RECURSIVE Factorial(_)
Factorial(n) == IF n <= 1 THEN 1 ELSE n * Factorial(n - 1)

RECURSIVE ShuffleOutcomes(_)
\* The lists the loop can end with from state st, over every choice of draws.
ShuffleOutcomes(st) ==
    IF st.i < 1 THEN {st.arr}
    ELSE UNION {ShuffleOutcomes(ShuffleStepDrawn(st, [value |-> j, rng |-> st.rng])) :
                  j \in RandintValues(0, st.i)}

\* C13: the shuffle of N items makes exactly N - 1 steps, for i = N - 1,
\* N - 2, ..., 1 in this order; at step i it draws j with 0 <= j <= i and
\* swaps positions i and j; whatever the draws, the working list is a
\* permutation of the input and the input list is not modified; every
\* arrangement of the input (N! of them for distinct items) is the output
\* for some choice of draws.
C13_FisherYates ==
    FY.pc \in {"fy", "returned"} =>
       /\ \A k \in 1 .. Len(FY.log) :
             /\ FY.log[k].arg = Len(FYInput) - k
             /\ FY.log[k].arg >= 1
             /\ FY.log[k].value \in 0 .. FY.log[k].arg
       /\ FY.i = Len(FYInput) - 1 - Len(FY.log)
       /\ FY.pc = "returned" =>
             /\ Len(FY.log) = (IF Len(FYInput) = 0 THEN 0 ELSE Len(FYInput) - 1)
             /\ FY.out = Some(FYArr)
       /\ IsPermutationOf(FYArr, FYInput)
       /\ FY.arr # FY.items
       /\ lists[FY.items[1]] = FYInput
       /\ FY.log = <<>> =>
             /\ ShuffleOutcomes(ShuffleInit(FYInput, 0)) = Rearrangements(FYInput)
             /\ Cardinality(Items(FYInput)) = Len(FYInput) =>
                   Cardinality(ShuffleOutcomes(ShuffleInit(FYInput, 0)))
                      = Factorial(Len(FYInput))

C13_Witness ==
    /\ FY.pc = "returned"
    /\ Len(FYInput) = MaxItems
    /\ Cardinality(Items(FYInput)) = MaxItems
    /\ Len(FY.log) = MaxItems - 1
    /\ \E k \in 1 .. Len(FY.log) : FY.log[k].value = FY.log[k].arg
    /\ \E k \in 1 .. Len(FY.log) : FY.log[k].value = 0 /\ FY.log[k].arg > 1
    /\ FY.out[1][1] = FYInput[MaxItems]
    /\ lists[FY.items[1]] = FYInput

--------------------------------------------------------------------------
(* Properties of the calls that run step by step *)

InProgress(p)   == frames[p].pc \in {"shuffle", "orient"}
StepReturned(p) == frames[p].pc = "returned" /\ frames[p].req # None
StepReq(p)      == frames[p].req[1]
StepOut(p)      == frames[p].out[1]
StepOk(p)       == StepReturned(p) /\ StepOut(p).status = "ok"
StepFailed(p)   == StepReturned(p) /\ StepOut(p).status = "error"
StepEntropy(p)  == IF frames[p].entropy = None THEN 0 ELSE frames[p].entropy[1]

\* The registries as they are at startup.
RegistriesAsAtStartup ==
    /\ CARD_REGISTRY = _build_rws_registry
    /\ Len(CARD_REGISTRY) = DeckSize
    /\ DOMAIN CARD_ID_INDEX = DeckIds
    /\ \A k \in 1 .. Len(CARD_REGISTRY) :
          CARD_ID_INDEX[CARD_REGISTRY[k].id] = k - 1
    /\ SPREAD_REGISTRY = SpreadRegistryInit
    /\ Cardinality(DOMAIN SPREAD_REGISTRY) = 4

\* C11: after any sequence of draw_cards calls, successful or failing, the
\* card registry (78 definitions and the id lookup) and the spread registry
\* (four spreads) are as at startup; the deck list passed to the shuffle is
\* never modified; a failing call has produced no result and has left no
\* object or random number behind.
C11_NoMutation ==
    /\ RegistriesAsAtStartup
    /\ \A p \in Callers :
          /\ frames[p].items # None =>
                lists[frames[p].items[1]] = CardIds(_build_rws_registry)
          /\ StepFailed(p) =>
                /\ "result" \notin DOMAIN StepOut(p)
                /\ frames[p].items = None /\ frames[p].arr = None
                /\ frames[p].rng = None
                /\ frames[p].cards = <<>> /\ frames[p].log = <<>>
                /\ lists[ItemsRef(p)] = <<>> /\ lists[ArrRef(p)] = <<>>
                /\ gens[GenRef(p)] = 0

C11_Witness ==
    /\ StepFailed(1)
    /\ StepOk(2)
    /\ lists[frames[2].items[1]] = CardIds(_build_rws_registry)
    /\ lists[frames[2].arr[1]] # lists[frames[2].items[1]]
    /\ RegistriesAsAtStartup

\* What the invocation of caller p returns when it runs alone: the whole
\* call made in one piece, with the OS entropy it read (if unseeded).
Alone(p) == draw_cards(StepReq(p), StepEntropy(p))

\* C12: concurrent draws do not interfere. Each invocation has its own
\* generator object and its own working copy of the deck; with the steps of
\* the callers (shuffle swaps, orientation draws) interleaved in any order,
\* the cards picked, the cards built so far and the value returned are
\* those of the same call run alone.
C12_NoInterference ==
    \A p \in Callers :
       /\ \A q \in Callers \ {p} :
             (InProgress(p) /\ InProgress(q)) =>
                /\ frames[p].rng # frames[q].rng
                /\ frames[p].arr # frames[q].arr
                /\ frames[p].items # frames[q].items
       /\ InProgress(p) => frames[p].arr # frames[p].items
       /\ frames[p].pc = "orient" =>
             /\ Alone(p).status = "ok"
             /\ frames[p].picked =
                   [k \in 1 .. Len(frames[p].picked) |->
                       Alone(p).result.cards[k].card_id]
             /\ frames[p].cards = SubSeq(Alone(p).result.cards, 1, frames[p].idx)
       /\ StepReturned(p) => StepOut(p) = Alone(p)

C12_Witness ==
    /\ frames[1].pc = "orient" /\ frames[2].pc = "orient"
    /\ frames[1].idx = 2 /\ frames[2].idx = 1
    /\ StepReq(1).seed = SeedStr("demo-seed")
    /\ StepReq(2) = StepReq(1)
    /\ frames[1].cards = SubSeq(Alone(1).result.cards, 1, 2)
    /\ frames[2].cards = SubSeq(frames[1].cards, 1, 1)

\* C14: within one draw the random numbers come from the call's single
\* generator in a fixed order: first the 77 shuffle draws, for i = 77 down
\* to 1, then exactly count orientation draws, one per card in increasing
\* index order; each step takes the next number of the generator's stream;
\* no orientation is drawn before the shuffle has finished; the card at
\* index i is "reversed" exactly when the i-th orientation draw is strictly
\* less than orientation_prob.
C14_DrawOrder ==
    \A p \in Callers :
       (frames[p].pc \in {"shuffle", "orient", "returned"} /\ frames[p].rng # None) =>
          LET f      == frames[p]
              start  == NewRandom(f.norm_seed, StepEntropy(p))
              nshuf  == DeckSize - 1
          IN  /\ \A k \in 1 .. Len(f.log) :
                    /\ f.log[k].rng =
                          RngAdvance(IF k = 1 THEN start ELSE f.log[k - 1].rng)
                    /\ IF k <= nshuf
                       THEN f.log[k].op = "randint" /\ f.log[k].arg = DeckSize - k
                       ELSE f.log[k].op = "random" /\ f.log[k].arg = k - nshuf - 1
              /\ gens[f.rng[1]] =
                    (IF f.log = <<>> THEN start ELSE f.log[Len(f.log)].rng)
              /\ f.pc = "shuffle" =>
                    /\ Len(f.log) = nshuf - f.i
                    /\ f.cards = <<>>
              /\ f.pc \in {"orient", "returned"} =>
                    /\ Len(f.log) = nshuf + Len(f.cards)
                    /\ Len(f.cards) = f.idx
              /\ f.pc = "returned" =>
                    /\ StepOk(p)
                    /\ Len(f.log) = nshuf + StepReq(p).num_cards.val
                    /\ StepOut(p).result.cards = f.cards
              /\ \A k \in 1 .. Len(f.cards) :
                    /\ f.cards[k].index = k - 1
                    /\ f.cards[k].orientation \in {"upright", "reversed"}
                    /\ (f.cards[k].orientation = "reversed") <=>
                          (f.log[nshuf + k].rng * 1000
                             < ProbMilli(StepReq(p).orientation_prob) * RngModulus)

C14_Witness ==
    /\ StepOk(1)
    /\ StepReq(1).num_cards = CountInt(3)
    /\ Len(frames[1].log) = DeckSize + 2
    /\ frames[1].log[DeckSize - 1].op = "randint"
    /\ frames[1].log[DeckSize - 1].arg = 1
    /\ frames[1].log[DeckSize + 2].op = "random"
    /\ frames[1].log[DeckSize + 2].arg = 2
    /\ InProgress(2)
    /\ \E k \in 1 .. 3 : StepOut(1).result.cards[k].orientation = "reversed"
    /\ \E k \in 1 .. 3 : StepOut(1).result.cards[k].orientation = "upright"

====
